---- MODULE Spec2Model ----
(***************************************************************************)
(* Model of the text search of agentic-tools-mcp-companion: the relevance  *)
(* scorers of MemoryService and TaskService and the search loops that use  *)
(* them (src/src/services/memoryService.ts, src/src/services/taskService.ts)*)
(*                                                                         *)
(* Strings are sequences of characters.  Scores are JavaScript numbers     *)
(* (IEEE doubles); a score is represented by an integer number of          *)
(* ten-thousandths, and a double that lies one rounding step below a       *)
(* multiple of 0.1 (0.6 + 0.3 = 0.8999999999999999) by that multiple       *)
(* minus one (8999).  The representation keeps the order of the doubles    *)
(* the scorers can produce, which is all the code uses (<, >=, min).       *)
(***************************************************************************)
EXTENDS Integers, Sequences, FiniteSets, TLC

\* ------------------------------------------------------------------ bounds
\* Total number of characters of the inputs of one scorer call
\* (title + content + category + query).
MaxTotalLen == 5

\* Number of records in the store a search scans.
MaxRecords == 3
\* paginateResults: at most MaxItems items, pages of at most MaxPageSize
\* items, requested pages from -MaxPage to MaxPage
MaxItems == 25
MaxPageSize == 10
MaxPage == 4
\* the quick-pick: at most MaxKeystrokes changes of the input value
MaxKeystrokes == 3
\* writeTasksFile: MaxWriters calls, each writing DataChunks chunks
MaxWriters == 2
MaxIds == 4
MaxCalls == 3
MaxMemoryIds == 3
DataChunks == 2

\* ------------------------------------------------------- program constants
ExactScore == 10000
PrefixScore == 8000
SuffixScore == 6000
ContainsScore == 4000
ContentWeight == 3000
CategoryBoost == 1000
ContentGate == 8000
CategoryGate == 9000
ScoreCap == 10000
DefaultThreshold == 3000
DefaultMaxResults == 200

\* --------------------------------------------------------------- strings
Chars == {"a", "A", "b", " "}

Str(n) == UNION {[1..k -> Chars] : k \in 0..n}

\* String.prototype.toLowerCase on one character
LowerChar(c) == IF c = "A" THEN "a" ELSE c

toLowerCase(s) == [i \in 1..Len(s) |-> LowerChar(s[i])]

\* String.prototype.includes
includes(s, q) ==
  \E i \in 0..(Len(s) - Len(q)) : SubSeq(s, i + 1, i + Len(q)) = q

\* String.prototype.startsWith
startsWith(s, q) ==
  /\ Len(q) <= Len(s)
  /\ SubSeq(s, 1, Len(q)) = q

\* String.prototype.endsWith
endsWith(s, q) ==
  /\ Len(q) <= Len(s)
  /\ SubSeq(s, Len(s) - Len(q) + 1, Len(s)) = q

IsSpace(c) == c = " "

\* first index >= i of s that holds no white space, Len(s) + 1 if none
RECURSIVE SkipSpace(_, _)
SkipSpace(s, i) ==
  IF i > Len(s) \/ ~IsSpace(s[i]) THEN i ELSE SkipSpace(s, i + 1)

\* String.prototype.split(/\s+/): the pieces between maximal runs of white
\* space, empty pieces at either end included ("a " gives "a" and "").
RECURSIVE SplitFrom(_, _, _)
SplitFrom(s, i, cur) ==
  IF i > Len(s) THEN <<cur>>
  ELSE IF IsSpace(s[i]) THEN <<cur>> \o SplitFrom(s, SkipSpace(s, i), <<>>)
  ELSE SplitFrom(s, i + 1, Append(cur, s[i]))

split(s) == SplitFrom(s, 1, <<>>)

\* ------------------------------------------------------------ arithmetic
\* x + y on doubles, for the values the scorers add: the two sums that
\* round down, 0.6 + 0.3 and 0.7 + 0.1, land one step below the multiple.
FAdd(x, y) ==
  IF <<x, y>> \in {<<6000, 3000>>, <<7000, 1000>>} THEN x + y - 1 ELSE x + y

\* (wordMatches / queryWords.length) * 0.3
RatioTimesWeight(wordMatches, total) == (wordMatches * ContentWeight) \div total

Min(x, y) == IF x <= y THEN x ELSE y

\* ----------------------------------------------------------------- scorers
\* memory.category === undefined: a value that is no string
NoCategory == <<"undefined">>

\* number of query words that occur in the text (the for loop over queryWords)
RECURSIVE CountWordMatches(_, _)
CountWordMatches(text, queryWords) ==
  IF queryWords = <<>> THEN 0
  ELSE (IF includes(text, Head(queryWords)) THEN 1 ELSE 0)
       + CountWordMatches(text, Tail(queryWords))

\* TitleScore with the prefix test ahead of the test for equality
TitleScorePrefixFirst(title, query) ==
  IF includes(title, query)
  THEN IF startsWith(title, query) THEN PrefixScore
       ELSE IF title = query THEN ExactScore
       ELSE IF endsWith(title, query) THEN SuffixScore
       ELSE ContainsScore
  ELSE 0

\* TitleScore with the suffix test ahead of the prefix test
TitleScoreSuffixFirst(title, query) ==
  IF includes(title, query)
  THEN IF title = query THEN ExactScore
       ELSE IF endsWith(title, query) THEN SuffixScore
       ELSE IF startsWith(title, query) THEN PrefixScore
       ELSE ContainsScore
  ELSE 0

\* title matches: the first if of calculateRelevanceScore
TitleScore(title, query) ==
  IF includes(title, query)
  THEN IF title = query THEN ExactScore
       ELSE IF startsWith(title, query) THEN PrefixScore
       ELSE IF endsWith(title, query) THEN SuffixScore
       ELSE ContainsScore
  ELSE 0

\* EarlyReturn that never returns early
EarlyReturnNever(score, performanceConfig) == FALSE

\* EarlyReturn that returns for the scores from lowScoreThreshold on
EarlyReturnAbove(score, performanceConfig) ==
  /\ performanceConfig.enableEarlyTermination
  /\ score >= performanceConfig.lowScoreThreshold

\* the early return of calculateRelevanceScore
EarlyReturn(score, performanceConfig) ==
  /\ performanceConfig.enableEarlyTermination
  /\ score < performanceConfig.lowScoreThreshold

\* ContentScore without the test score < 0.8
ContentScoreUngated(score, content, query) ==
  IF includes(content, query)
  THEN LET queryWords == split(query)
           wordMatches == CountWordMatches(content, queryWords)
       IN IF wordMatches > 0
          THEN RatioTimesWeight(wordMatches, Len(queryWords))
          ELSE 0
  ELSE 0

\* ContentScore that counts the query words in the content whether or not
\* the content contains the query as a whole
ContentScoreByWords(score, content, query) ==
  IF score < ContentGate
  THEN LET queryWords == split(query)
           wordMatches == CountWordMatches(content, queryWords)
       IN IF wordMatches > 0
          THEN RatioTimesWeight(wordMatches, Len(queryWords))
          ELSE 0
  ELSE 0

\* content matches: what the second if of calculateRelevanceScore adds
ContentScore(score, content, query) ==
  IF score < ContentGate /\ includes(content, query)
  THEN LET queryWords == split(query)
           wordMatches == CountWordMatches(content, queryWords)
       IN IF wordMatches > 0
          THEN RatioTimesWeight(wordMatches, Len(queryWords))
          ELSE 0
  ELSE 0

\* CategoryScore that compares the category as it is written
CategoryScoreCaseSensitive(score, category, query) ==
  IF /\ score < CategoryGate
     /\ category # NoCategory
     /\ category # <<>>
     /\ includes(category, query)
  THEN CategoryBoost
  ELSE 0

\* CategoryScore without the test score < 0.9
CategoryScoreUngated(score, category, query) ==
  IF /\ category # NoCategory
     /\ category # <<>>
     /\ includes(toLowerCase(category), query)
  THEN CategoryBoost
  ELSE 0

\* category bonus: what the third if of the memory scorer adds
CategoryScore(score, category, query) ==
  IF /\ score < CategoryGate
     /\ category # NoCategory
     /\ category # <<>>
     /\ includes(toLowerCase(category), query)
  THEN CategoryBoost
  ELSE 0

\* MemoryScoreSteps that adds the category bonus whatever the score is and
\* returns the sum as it is
MemoryScoreStepsAdditive(memory, query, performanceConfig) ==
  LET title == toLowerCase(memory.title)
      content == toLowerCase(memory.content)
      s1 == TitleScore(title, query)
      early == EarlyReturn(s1, performanceConfig)
      cAdd == ContentScore(s1, content, query)
      s2 == FAdd(s1, cAdd)
      gAdd == CategoryScoreUngated(s2, memory.category, query)
      s3 == FAdd(s2, gAdd)
  IN IF early
     THEN [primary |-> s1, early |-> TRUE, contentAdded |-> 0,
           categoryAdded |-> 0, beforeCategory |-> s1, score |-> s1]
     ELSE [primary |-> s1, early |-> FALSE, contentAdded |-> cAdd,
           categoryAdded |-> gAdd, beforeCategory |-> s2, score |-> s3]

\* MemoryService.calculateRelevanceScore, with the values of its locals
MemoryScoreSteps(memory, query, performanceConfig) ==
  LET title == toLowerCase(memory.title)
      content == toLowerCase(memory.content)
      s1 == TitleScore(title, query)
      early == EarlyReturn(s1, performanceConfig)
      cAdd == ContentScore(s1, content, query)
      s2 == FAdd(s1, cAdd)
      gAdd == CategoryScore(s2, memory.category, query)
      s3 == FAdd(s2, gAdd)
  IN IF early
     THEN [primary |-> s1, early |-> TRUE, contentAdded |-> 0,
           categoryAdded |-> 0, beforeCategory |-> s1, score |-> s1]
     ELSE [primary |-> s1, early |-> FALSE, contentAdded |-> cAdd,
           categoryAdded |-> gAdd, beforeCategory |-> s2,
           score |-> Min(s3, ScoreCap)]

calculateRelevanceScore(memory, query, performanceConfig) ==
  MemoryScoreSteps(memory, query, performanceConfig).score

\* name matches: the first if of calculateTaskRelevanceScore
NameScore(name, query) ==
  IF includes(name, query)
  THEN IF name = query THEN ExactScore
       ELSE IF startsWith(name, query) THEN PrefixScore
       ELSE IF endsWith(name, query) THEN SuffixScore
       ELSE ContainsScore
  ELSE 0

\* the early return of calculateTaskRelevanceScore
TaskEarlyReturn(score, performanceConfig) ==
  /\ performanceConfig.enableEarlyTermination
  /\ score < performanceConfig.lowScoreThreshold

\* details matches: what the second if of calculateTaskRelevanceScore adds
DetailsScore(score, details, query) ==
  IF score < ContentGate /\ includes(details, query)
  THEN LET queryWords == split(query)
           wordMatches == CountWordMatches(details, queryWords)
       IN IF wordMatches > 0
          THEN RatioTimesWeight(wordMatches, Len(queryWords))
          ELSE 0
  ELSE 0

\* TaskService.calculateTaskRelevanceScore, with the values of its locals
TaskScoreSteps(task, query, performanceConfig) ==
  LET name == toLowerCase(task.name)
      details == toLowerCase(task.details)
      s1 == NameScore(name, query)
      early == TaskEarlyReturn(s1, performanceConfig)
      dAdd == DetailsScore(s1, details, query)
      s2 == FAdd(s1, dAdd)
  IN IF early
     THEN [primary |-> s1, early |-> TRUE, contentAdded |-> 0,
           categoryAdded |-> 0, beforeCategory |-> s1, score |-> s1]
     ELSE [primary |-> s1, early |-> FALSE, contentAdded |-> dAdd,
           categoryAdded |-> 0, beforeCategory |-> s2,
           score |-> Min(s2, ScoreCap)]

calculateTaskRelevanceScore(task, query, performanceConfig) ==
  TaskScoreSteps(task, query, performanceConfig).score

\* --------------------------------------------------------- configuration
LowScoreThresholds == {1000, 5000}

PerformanceConfigs ==
  [enableEarlyTermination : BOOLEAN, lowScoreThreshold : LowScoreThresholds]

\* ------------------------------------------------------------ the search
\* An optional field (limit?, threshold?, category?) is the empty set when
\* the caller leaves it out and a one-element set otherwise.
Absent == {}

\* a ?? b
Coalesce(opt, default) == IF opt = {} THEN default ELSE CHOOSE x \in opt : TRUE

\* Records the stores of the search model hold.
SearchTitles == { <<"a">>, <<"B", "a">>, <<"b", "a", "b">> }
SearchTexts == { <<>>, <<"a">> }

TaskPool == [name : SearchTitles, details : SearchTexts]

MemoryPool ==
  { m \in [title : SearchTitles, content : SearchTexts,
           category : {NoCategory} \cup (SearchTexts \ {<<>>})] :
      m.content = <<>> \/ m.category = NoCategory }

Pool(k) == IF k = "memory" THEN MemoryPool ELSE TaskPool

Stores(k) == UNION {[1..n -> Pool(k)] : n \in 0..MaxRecords}

SearchQueries == { <<>>, <<"a">>, <<"B">> }

\* config.search as getConfig returns it: the defaults, or a small cap set
\* by the user
SearchConfigs ==
  { [threshold |-> DefaultThreshold, maxResults |-> m] :
      m \in {2, DefaultMaxResults} }

\* config.performance; lowScoreThreshold matters only with early termination
SearchPerformanceConfigs ==
  { p \in PerformanceConfigs :
      p.enableEarlyTermination \/ p.lowScoreThreshold = 1000 }

\* the callers pass a query, maybe a threshold and a limit, and no category
SearchInputs ==
  [query : SearchQueries, threshold : {Absent, {5000}}, limit : {Absent, {1}},
   category : {Absent}]

\* the directory a memory file lives in: its category, "general" without one
DefaultCategory == <<"general">>
CategoryDir(m) == IF m.category = NoCategory THEN DefaultCategory ELSE m.category

\* the indices i of seq with P(seq[i]), in order
RECURSIVE IndicesFrom(_, _, _)
IndicesFrom(seq, i, dir) ==
  IF i > Len(seq) THEN <<>>
  ELSE (IF dir = {} \/ CategoryDir(seq[i]) \in dir THEN <<i>> ELSE <<>>)
       \o IndicesFrom(seq, i + 1, dir)

\* MemoryService.getMemories(undefined, category): the memories of the
\* category directory, or of every directory; each is named by its place
\* in the store
getMemories(st, category) == IndicesFrom(st, 1, category)

\* TaskService.loadData().tasks
loadTasks(st) == [i \in 1..Len(st) |-> i]

\* InsertByScore that puts x ahead of the elements with its score
RECURSIVE InsertAheadOfTies(_, _)
InsertAheadOfTies(sorted, x) ==
  IF sorted = <<>> THEN <<x>>
  ELSE IF Head(sorted).score > x.score
       THEN <<Head(sorted)>> \o InsertAheadOfTies(Tail(sorted), x)
       ELSE <<x>> \o sorted

\* Array.prototype.sort((a, b) => b.score - a.score): stable, so x goes
\* behind every element that does not score lower
RECURSIVE InsertByScore(_, _)
InsertByScore(sorted, x) ==
  IF sorted = <<>> THEN <<x>>
  ELSE IF Head(sorted).score >= x.score
       THEN <<Head(sorted)>> \o InsertByScore(Tail(sorted), x)
       ELSE <<x>> \o sorted

RECURSIVE SortByScore(_)
SortByScore(rs) ==
  IF rs = <<>> THEN <<>>
  ELSE InsertByScore(SortByScore(SubSeq(rs, 1, Len(rs) - 1)), rs[Len(rs)])

\* Array.prototype.slice(0, n) for n >= 0
SliceTo(rs, n) == SubSeq(rs, 1, Min(n, Len(rs)))

\* ------------------------------------------------------------------ state
VARIABLES
  kind,      \* which service is called: "memory" or "task"
  record,    \* the memory (title, content, category) or task (name, details)
  rawQuery,  \* input.query as the caller gave it
  perf,      \* config.performance
  steps,     \* the locals and the result of the scorer call, once made
  phase,     \* "ready" before the scorer call, "scored" after it
  twin,      \* the twin calls: early termination disabled, other scorer
  store,     \* the stored records, in the order the service enumerates them
  input,     \* the search input: query, threshold?, limit?, category?
  config,    \* ConfigUtils.getConfig(): search and performance
  aborted,   \* input.signal.aborted
  pc,        \* where the search call is
  all,       \* allMemories / data.tasks: the loaded records, by store index
  idx,       \* the position of the for loop in all
  results,   \* the local results array
  output,    \* the array the call resolved with
  structure,     \* the .agentic-tools-mcp directories and tasks.json exist
  isInitialized, \* MemoryService.isInitialized
  items,     \* paginateResults: the list to paginate
  page,      \* the requested page
  pageSize,  \* the requested page size
  paged,     \* the value the last call of paginateResults returned
  pstate,    \* "ready", "paged" after a call, "walking" / "walked"
  walk,      \* the next page of a caller that reads page after page
  collected, \* the items of the pages read so far, in order
  open,      \* the quick-pick is shown (not yet hidden and disposed)
  keys,      \* the number of changes of the input value so far
  timer,     \* searchTimeout: "none", or the value its callback captured
  started,   \* the number of searches started; the latest has this number
  inflight,  \* the searches whose promise is pending
  currentOp, \* currentSearchOperation: 0, or the search it was made for
  cancelledOps, \* the operations whose signal is aborted
  shown,     \* the search whose result items quickPick.items shows, or 0
  names,     \* the directory: the inode of filePath and of tempPath (0: none)
  content,   \* the content of each inode, a sequence of chunks
  nextInode, \* the inode the next created file gets
  wpc,       \* where each call of writeTasksFile is
  fd,        \* the inode each call has open for writing (0: none)
  off,       \* the number of chunks each call has written through its fd
  uuid,      \* the number of ids FileUtils.generateId() has returned
  data,      \* the StorageData in tasks.json: projects, tasks, subtasks
  calls,     \* the TaskService calls in flight: position, data, created id
  memoryFiles, \* the memory files: directory, name, suffix and JSON content
  updated    \* the last call of updateMemory: its id and what it returned

scoreVars == <<record, rawQuery, perf, steps, phase, twin>>
searchVars == <<store, input, config, aborted, pc, all, idx, results, output>>
setupVars == <<structure, isInitialized>>
pageVars == <<items, page, pageSize, paged, pstate, walk, collected>>
pickVars == <<open, keys, timer, started, inflight, currentOp, cancelledOps,
              shown>>
writeVars == <<names, content, nextInode, wpc, fd, off>>
storeVars == <<uuid, data, calls, memoryFiles, updated>>
restVars == <<pageVars, pickVars, writeVars, storeVars>>
vars == <<kind, scoreVars, searchVars, setupVars, restVars>>

NotScored == [primary |-> -1, early |-> FALSE, contentAdded |-> 0,
              categoryAdded |-> 0, beforeCategory |-> -1, score |-> -1]

\* the primary and the secondary text of the record, whatever its kind
PrimaryText(k, r) == IF k = "memory" THEN r.title ELSE r.name
SecondaryText(k, r) == IF k = "memory" THEN r.content ELSE r.details
CategoryOf(k, r) == IF k = "memory" THEN r.category ELSE NoCategory

NotPaged ==
  [items |-> <<>>,
   pagination |-> [currentPage |-> 0, totalPages |-> 0, pageSize |-> 0,
                   totalItems |-> 0, hasNextPage |-> FALSE,
                   hasPreviousPage |-> FALSE]]

\* no twin call was made
NotCompared == <<>>

\* no scorer call is modelled
NoScore ==
  /\ twin = NotCompared
  /\ record = [name |-> <<>>, details |-> <<>>]
  /\ rawQuery = <<>>
  /\ perf = [enableEarlyTermination |-> TRUE, lowScoreThreshold |-> 1000]
  /\ steps = NotScored
  /\ phase = "none"

\* no pagination is modelled
NoPaging ==
  /\ items = <<>>
  /\ page = 1
  /\ pageSize = 1
  /\ paged = <<>>
  /\ pstate = "none"
  /\ walk = 0
  /\ collected = <<>>

\* no quick-pick is modelled
NoPick ==
  /\ open = FALSE
  /\ keys = 0
  /\ timer = "none"
  /\ started = 0
  /\ inflight = {}
  /\ currentOp = 0
  /\ cancelledOps = {}
  /\ shown = 0

\* no call of writeTasksFile is modelled
NoWrite ==
  /\ names = <<>>
  /\ content = <<>>
  /\ nextInode = 0
  /\ wpc = <<>>
  /\ fd = <<>>
  /\ off = <<>>

\* what the specifications of the scorers and of the search leave alone
\* the storage data of a workspace without projects
EmptyData == [projects |-> {}, tasks |-> {}, subtasks |-> {}]

NoCall == [id |-> 0, returned |-> <<>>, created |-> {}]

\* neither the task store nor the memory files are modelled
NoStores ==
  /\ uuid = 0
  /\ data = <<>>
  /\ calls = <<>>
  /\ memoryFiles = {}
  /\ updated = <<>>

NoRest == NoPaging /\ NoPick /\ NoWrite /\ NoStores

\* ------------------------------------------- specification of the scorers
NoSearch ==
  /\ store = <<>>
  /\ input = <<>>
  /\ config = <<>>
  /\ aborted = FALSE
  /\ pc = "none"
  /\ all = <<>>
  /\ idx = 0
  /\ results = <<>>
  /\ output = <<>>
  /\ structure = TRUE
  /\ isInitialized = TRUE

ScoreStart(performanceConfigs) ==
  /\ kind \in {"memory", "task"}
  /\ \E t \in Str(MaxTotalLen) :
       \E c \in Str(MaxTotalLen - Len(t)) :
         \E q \in Str(MaxTotalLen - Len(t) - Len(c)) :
           /\ rawQuery = q
           /\ IF kind = "memory"
              THEN \E g \in {NoCategory}
                            \cup Str(MaxTotalLen - Len(t) - Len(c) - Len(q)) :
                     record = [title |-> t, content |-> c, category |-> g]
              ELSE record = [name |-> t, details |-> c]
  /\ perf \in performanceConfigs
  /\ steps = NotScored
  /\ phase = "ready"
  /\ twin = NotCompared
  /\ NoSearch
  /\ NoRest

ScoreInit == ScoreStart(PerformanceConfigs)

\* the call of the scorer in the search loop, with the query lower-cased
\* as searchMemories / searchTasks do before the loop
ScoreCall ==
  /\ phase = "ready"
  /\ LET query == toLowerCase(rawQuery)
     IN steps' = IF kind = "memory"
                 THEN MemoryScoreSteps(record, query, perf)
                 ELSE TaskScoreSteps(record, query, perf)
  /\ phase' = "scored"
  /\ UNCHANGED <<kind, record, rawQuery, perf, twin, searchVars, setupVars,
                 restVars>>

ScoreNext == ScoreCall

ScoreSpec == ScoreInit /\ [][ScoreNext]_vars

\* ------------------------------- specification of the scorers, compared
\* the texts of a task as a memory without category, and the reverse
AsMemory(task) ==
  [title |-> task.name, content |-> task.details, category |-> NoCategory]

AsTask(memory) == [name |-> memory.title, details |-> memory.content]

\* the steps of the scorer of the service k
ScoreStepsBy(k, r, query, performanceConfig) ==
  IF k = "memory" THEN MemoryScoreSteps(r, query, performanceConfig)
  ELSE TaskScoreSteps(r, query, performanceConfig)

\* the record as the other service holds it, and that service
OtherRecord == IF kind = "memory" THEN AsTask(record) ELSE AsMemory(record)
OtherKind == IF kind = "memory" THEN "task" ELSE "memory"

\* the configurations with early termination enabled
EnabledConfigs == {p \in PerformanceConfigs : p.enableEarlyTermination}

CompareInit == ScoreStart(EnabledConfigs)

\* the call of the scorer as in ScoreCall, early termination enabled, and
\* with it the twin calls for the same texts and query: the same scorer
\* with enableEarlyTermination false, and the scorer of the other service
\* under both settings
CompareCall ==
  /\ phase = "ready"
  /\ LET query == toLowerCase(rawQuery)
         disabled == [perf EXCEPT !.enableEarlyTermination = FALSE]
     IN /\ steps' = ScoreStepsBy(kind, record, query, perf)
        /\ twin' = [disabled |-> ScoreStepsBy(kind, record, query, disabled),
                    other |-> ScoreStepsBy(OtherKind, OtherRecord, query,
                                           perf).score,
                    otherDisabled |-> ScoreStepsBy(OtherKind, OtherRecord,
                                                   query, disabled).score]
  /\ phase' = "compared"
  /\ UNCHANGED <<kind, record, rawQuery, perf, searchVars, setupVars,
                 restVars>>

CompareNext == CompareCall

CompareSpec == CompareInit /\ [][CompareNext]_vars

\* ------------------------------------------- specification of the search
\* a search is about to be called: the records, the input, the settings
SearchStart ==
  /\ kind \in {"memory", "task"}
  /\ store \in Stores(kind)
  /\ input \in SearchInputs
  /\ \E s \in SearchConfigs, p \in SearchPerformanceConfigs :
       /\ input.limit = Absent \/ s.maxResults = DefaultMaxResults
       /\ config = [search |-> s, performance |-> p]
  /\ aborted = FALSE
  /\ pc = "idle"
  /\ all = <<>>
  /\ idx = 0
  /\ results = <<>>
  /\ output = <<>>
  /\ record = [name |-> <<>>, details |-> <<>>]
  /\ rawQuery = <<>>
  /\ perf = config.performance
  /\ steps = NotScored
  /\ phase = "none"
  /\ twin = NotCompared
  /\ NoRest

\* the searches of a workspace that is set up and whose services are
\* initialised
SearchInit ==
  /\ SearchStart
  /\ structure = TRUE
  /\ isInitialized = TRUE

\* the locals query, threshold and maxResults of the search
Query == toLowerCase(input.query)

\* Threshold that ignores input.threshold
ThresholdOfConfig == config.search.threshold

Threshold == Coalesce(input.threshold, config.search.threshold)

\* MaxResults that ignores input.limit
MaxResultsOfConfig == config.search.maxResults

MaxResults == Coalesce(input.limit, config.search.maxResults)

\* the check before the loop that is left out
NoCheck == FALSE

\* if (input.signal?.aborted) before the loop
AbortedBeforeLoop == aborted

\* if (input.signal?.aborted) in the loop
AbortedInLoop == aborted

\* score >= threshold with > in the place of >=
AcceptsAbove(score) == score > Threshold

\* if (score >= threshold)
Accepts(score) == score >= Threshold

\* the loop that skips no record
NeverSkips(score) == FALSE

\* if (config.performance.enableEarlyTermination &&
\*     score < config.performance.lowScoreThreshold) continue;
SkipsLowScore(score) ==
  /\ config.performance.enableEarlyTermination
  /\ score < config.performance.lowScoreThreshold

\* the loop that never stops early
CapNeverReached(n) == FALSE

\* if (results.length >= maxResults) break;
CapReached(n) == n >= MaxResults

\* ensureAgenticToolsStructure that writes the empty tasks.json without
\* looking whether the file exists
WriteEmptyTasksFile(st, exists) == <<>>

\* WorkspaceUtils.ensureAgenticToolsStructure(): the directories are made,
\* and tasks.json is written with no tasks unless fs.access finds it
ensureAgenticToolsStructure(st, exists) == IF exists THEN st ELSE <<>>

\* the score of the record at store index i, as the loop computes it
ScoreOf(i) ==
  IF kind = "memory"
  THEN calculateRelevanceScore(store[i], Query, config.performance)
  ELSE calculateTaskRelevanceScore(store[i], Query, config.performance)

\* the caller aborts the signal: before the call, or while the call awaits
\* the records (the loop that follows has no await, so nothing runs
\* between two of its iterations)
Abort ==
  /\ pc \in {"idle", "loading"}
  /\ ~aborted
  /\ aborted' = TRUE
  /\ UNCHANGED <<kind, scoreVars, store, input, config, pc, all, idx,
                 results, output, setupVars, restVars>>

\* searchMemories / searchTasks is called and awaits the records
StartSearch ==
  /\ pc = "idle"
  /\ pc' = "loading"
  /\ UNCHANGED <<kind, scoreVars, store, input, config, aborted, all, idx,
                 results, output, setupVars, restVars>>

\* the awaited part of the call: MemoryService.initialize() (a no-op once
\* isInitialized) or TaskService.loadData() ensures the directory
\* structure, then the records arrive; the check for cancellation before
\* the loop
Loaded ==
  /\ pc = "loading"
  /\ store' = IF kind = "task"
              THEN ensureAgenticToolsStructure(store, structure) ELSE store
  /\ structure' = IF kind = "task" \/ ~isInitialized THEN TRUE ELSE structure
  /\ isInitialized' = IF kind = "memory" THEN TRUE ELSE isInitialized
  /\ all' = IF kind = "memory" THEN getMemories(store', input.category)
            ELSE loadTasks(store')
  /\ IF AbortedBeforeLoop
     THEN pc' = "cancelled" /\ idx' = idx
     ELSE pc' = "scanning" /\ idx' = 1
  /\ UNCHANGED <<kind, scoreVars, input, config, aborted, results, output,
                 restVars>>

\* one iteration of the for loop
ScanStep ==
  /\ pc = "scanning"
  /\ idx <= Len(all)
  /\ IF AbortedInLoop
     THEN /\ pc' = "cancelled"
          /\ UNCHANGED <<idx, results>>
     ELSE LET score == ScoreOf(all[idx])
              skip == SkipsLowScore(score)
              pushed == Append(results, [id |-> all[idx], score |-> score])
          IN IF ~skip /\ Accepts(score)
             THEN /\ results' = pushed
                  /\ idx' = idx + 1
                  /\ pc' = IF CapReached(Len(pushed))
                           THEN "sorting" ELSE "scanning"
             ELSE /\ idx' = idx + 1
                  /\ UNCHANGED <<results, pc>>
  /\ UNCHANGED <<kind, scoreVars, store, input, config, aborted, all, output,
                 setupVars, restVars>>

\* the loop runs out of records
LoopEnd ==
  /\ pc = "scanning"
  /\ idx > Len(all)
  /\ pc' = "sorting"
  /\ UNCHANGED <<kind, scoreVars, store, input, config, aborted, all, idx,
                 results, output, setupVars, restVars>>

\* results.sort(...); return results.slice(0, maxResults)
Return ==
  /\ pc = "sorting"
  /\ results' = SortByScore(results)
  /\ output' = SliceTo(SortByScore(results), MaxResults)
  /\ pc' = "returned"
  /\ UNCHANGED <<kind, scoreVars, store, input, config, aborted, all, idx,
                 setupVars, restVars>>

SearchNext ==
  \/ Abort
  \/ StartSearch
  \/ Loaded
  \/ ScanStep
  \/ LoopEnd
  \/ Return

SearchSpec == SearchInit /\ [][SearchNext]_vars

\* -------------------------- the first searches of a workspace or a session
\* the settings as getConfig() returns them when the user has set none
DefaultConfig ==
  [search |-> [threshold |-> DefaultThreshold,
               maxResults |-> DefaultMaxResults],
   performance |-> [enableEarlyTermination |-> TRUE,
                    lowScoreThreshold |-> 1000]]

\* a search under the default settings, in a workspace that may lack the
\* .agentic-tools-mcp structure (and then holds no records) and with a
\* memory service that may not be initialised yet
FrameInit ==
  /\ SearchStart
  /\ config = DefaultConfig
  /\ structure \in BOOLEAN
  /\ isInitialized \in BOOLEAN
  /\ ~structure => (store = <<>> /\ ~isInitialized)

FrameSpec == FrameInit /\ [][SearchNext]_vars

\* ------------------------------------------------------------- pagination
Max(a, b) == IF a >= b THEN a ELSE b

\* Math.ceil(a / b) that rounds down
MathFloor(a, b) == a \div b

\* Math.ceil(a / b) for a >= 0 and b > 0
MathCeil(a, b) == (a + b - 1) \div b

\* the place in an array of length len that a start or end argument of
\* Array.prototype.slice names: counted from the end when negative, and
\* held within 0..len
SliceIndex(i, len) == IF i < 0 THEN Max(len + i, 0) ELSE Min(i, len)

\* Array.prototype.slice(start, end); indices count from 0, end excluded
slice(arr, start, end) ==
  SubSeq(arr, SliceIndex(start, Len(arr)) + 1, SliceIndex(end, Len(arr)))

\* startIndex that takes the page for the number of pages to skip
StartIndexOfNextPage(p, size) == p * size

\* const startIndex = (page - 1) * pageSize
StartIndex(p, size) == (p - 1) * size

\* ConfigUtils.createPaginationInfo
createPaginationInfo(totalItems, currentPage, size) ==
  LET totalPages == MathCeil(totalItems, size)
  IN [currentPage |-> Max(1, Min(currentPage, totalPages)),
      totalPages |-> totalPages,
      pageSize |-> size,
      totalItems |-> totalItems,
      hasNextPage |-> currentPage < totalPages,
      hasPreviousPage |-> currentPage > 1]

\* ConfigUtils.paginateResults
paginateResults(list, p, size) ==
  LET startIndex == StartIndex(p, size)
      endIndex == startIndex + size
  IN [items |-> slice(list, startIndex, endIndex),
      pagination |-> createPaginationInfo(Len(list), p, size)]

\* the pages a caller may ask for
Pages == (0 - MaxPage)..MaxPage

\* a list of n items, each named by its place
ItemList(n) == [i \in 1..n |-> i]

PageInit ==
  /\ \E n \in 0..MaxItems : items = ItemList(n)
  /\ page \in Pages
  /\ pageSize \in 1..MaxPageSize
  /\ paged = NotPaged
  /\ pstate = "ready"
  /\ walk = 1
  /\ collected = <<>>
  /\ kind = "task"
  /\ NoScore
  /\ NoSearch
  /\ NoPick
  /\ NoWrite
  /\ NoStores

\* paginateResults(items, page, pageSize)
Paginate ==
  /\ pstate = "ready"
  /\ paged' = paginateResults(items, page, pageSize)
  /\ pstate' = "paged"
  /\ UNCHANGED <<kind, scoreVars, searchVars, setupVars, storeVars,
                 pickVars, writeVars,
                 items, page, pageSize, walk, collected>>

\* a caller reads the pages 1, 2, ... in turn: the next page
WalkPage ==
  /\ pstate \in {"ready", "walking"}
  /\ walk <= MathCeil(Len(items), pageSize)
  /\ paged' = paginateResults(items, walk, pageSize)
  /\ collected' = collected \o paged'.items
  /\ walk' = walk + 1
  /\ pstate' = "walking"
  /\ UNCHANGED <<kind, scoreVars, searchVars, setupVars, storeVars,
                 pickVars, writeVars,
                 items, page, pageSize>>

\* the caller has read the last page
WalkEnd ==
  /\ pstate \in {"ready", "walking"}
  /\ walk > MathCeil(Len(items), pageSize)
  /\ pstate' = "walked"
  /\ UNCHANGED <<kind, scoreVars, searchVars, setupVars, storeVars,
                 pickVars, writeVars,
                 items, page, pageSize, paged, walk, collected>>

PageNext ==
  \/ Paginate
  \/ WalkPage
  \/ WalkEnd

PageSpec == PageInit /\ [][PageNext]_vars

\* ------------------------------------------------- the search quick-pick
\* what the input holds after a change, as the debounced callback sees
\* it: nothing but spaces, one character, or a query of two or more
Values == {"empty", "short", "query"}

\* the callback of the task quick-pick passes no signal and keeps no
\* operation; the one of the memory quick-pick makes a CancellableOperation
HasOperation == kind = "memory"

PickInit ==
  /\ kind \in {"memory", "task"}
  /\ open = TRUE
  /\ keys = 0
  /\ timer = "none"
  /\ started = 0
  /\ inflight = {}
  /\ currentOp = 0
  /\ cancelledOps = {}
  /\ shown = 0
  /\ NoScore
  /\ NoSearch
  /\ NoPaging
  /\ NoWrite
  /\ NoStores

\* CancellableOperation.cancel() on currentSearchOperation, if there is one
CancelCurrent ==
  IF HasOperation /\ currentOp # 0 THEN cancelledOps \cup {currentOp}
  ELSE cancelledOps

\* quickPick.onDidChangeValue: cancel the operation (memory quick-pick),
\* clear the timeout and set a new one
ChangeValue ==
  /\ open
  /\ keys < MaxKeystrokes
  /\ keys' = keys + 1
  /\ cancelledOps' = CancelCurrent
  /\ \E v \in Values : timer' = v
  /\ UNCHANGED <<kind, scoreVars, searchVars, setupVars, storeVars,
                 pageVars, writeVars,
                 open, started, inflight, currentOp, shown>>

\* the debounce timeout fires: a short value shows the back item (and a
\* hint), a query starts a search
TimerFires ==
  /\ timer # "none"
  /\ timer' = "none"
  /\ IF timer = "query"
     THEN /\ started' = started + 1
          /\ inflight' = inflight \cup {started + 1}
          /\ currentOp' = IF HasOperation THEN started + 1 ELSE currentOp
          /\ shown' = shown
     ELSE /\ shown' = IF open THEN 0 ELSE shown
          /\ UNCHANGED <<started, inflight, currentOp>>
  /\ UNCHANGED <<kind, scoreVars, searchVars, setupVars, storeVars,
                 pageVars, writeVars,
                 open, keys, cancelledOps>>

\* the search n resolves or throws the cancellation error. A search whose
\* signal was aborted while it awaited the records throws, and the catch
\* of the callback returns; the others resolve, the memory callback looks
\* at currentSearchOperation.isAborted, and the items are set
SearchDone(n) ==
  /\ n \in inflight
  /\ inflight' = inflight \ {n}
  /\ shown' = IF \/ ~open
                 \/ HasOperation /\ n \in cancelledOps
                 \/ HasOperation /\ currentOp \in cancelledOps
              THEN shown ELSE n
  /\ UNCHANGED <<kind, scoreVars, searchVars, setupVars, storeVars,
                 pageVars, writeVars,
                 open, keys, timer, started, currentOp, cancelledOps>>

\* the search n throws another error: the error item is shown
SearchFails(n) ==
  /\ n \in inflight
  /\ inflight' = inflight \ {n}
  /\ shown' = IF open THEN 0 ELSE shown
  /\ UNCHANGED <<kind, scoreVars, searchVars, setupVars, storeVars,
                 pageVars, writeVars,
                 open, keys, timer, started, currentOp, cancelledOps>>

\* quickPick.onDidHide: the memory quick-pick cancels the operation and
\* clears the timeout; both dispose the quick-pick
Hide ==
  /\ open
  /\ open' = FALSE
  /\ cancelledOps' = CancelCurrent
  /\ timer' = IF HasOperation THEN "none" ELSE timer
  /\ UNCHANGED <<kind, scoreVars, searchVars, setupVars, storeVars,
                 pageVars, writeVars,
                 keys, started, inflight, currentOp, shown>>

PickNext ==
  \/ ChangeValue
  \/ TimerFires
  \/ \E n \in 1..MaxKeystrokes : SearchDone(n)
  \/ \E n \in 1..MaxKeystrokes : SearchFails(n)
  \/ Hide

PickSpec == PickInit /\ [][PickNext]_vars

\* --------------------------------------------------------- writeTasksFile
Writers == 1..MaxWriters

\* the write that produced the tasks.json the calls find
PreviousWrite == MaxWriters + 1

\* JSON.stringify(data, null, 2) of the call w: DataChunks chunks, each
\* named by the call
Data(w) == [i \in 1..DataChunks |-> w]

\* a write of chunk v at place pos of a file; a gap reads as zeros
WriteAt(c, pos, v) ==
  [i \in 1..Max(Len(c), pos) |->
     IF i = pos THEN v ELSE IF i <= Len(c) THEN c[i] ELSE 0]

WriteInit ==
  /\ names = [filePath |-> 1, tempPath |-> 0]
  /\ content = [i \in 1..(MaxWriters + 1) |->
                 IF i = 1 THEN Data(PreviousWrite) ELSE <<>>]
  /\ nextInode = 2
  /\ wpc = [w \in Writers |-> "mkdir"]
  /\ fd = [w \in Writers |-> 0]
  /\ off = [w \in Writers |-> 0]
  /\ kind = "task"
  /\ NoScore
  /\ NoSearch
  /\ NoPaging
  /\ NoPick
  /\ NoStores

\* await fs.mkdir(path.dirname(filePath), { recursive: true })
Mkdir(w) ==
  /\ wpc[w] = "mkdir"
  /\ wpc' = [wpc EXCEPT ![w] = "open"]
  /\ UNCHANGED <<kind, scoreVars, searchVars, setupVars, storeVars,
                 pageVars, pickVars,
                 names, content, nextInode, fd, off>>

\* fs.writeFile(tempPath, ...) opens the file with flag 'w': the file is
\* created, or the file of that name is truncated
OpenTemp(w) ==
  /\ wpc[w] = "open"
  /\ IF names.tempPath = 0
     THEN /\ names' = [names EXCEPT !.tempPath = nextInode]
          /\ nextInode' = nextInode + 1
          /\ content' = content
     ELSE /\ content' = [content EXCEPT ![names.tempPath] = <<>>]
          /\ UNCHANGED <<names, nextInode>>
  /\ fd' = [fd EXCEPT ![w] = names'.tempPath]
  /\ off' = [off EXCEPT ![w] = 0]
  /\ wpc' = [wpc EXCEPT ![w] = "write"]
  /\ UNCHANGED <<kind, scoreVars, searchVars, setupVars, storeVars,
                 pageVars, pickVars>>

\* fs.writeFile writes the next chunk through its descriptor; with the
\* last chunk the file is closed and the await returns
WriteChunk(w) ==
  /\ wpc[w] = "write"
  /\ content' = [content EXCEPT ![fd[w]] = WriteAt(@, off[w] + 1, w)]
  /\ off' = [off EXCEPT ![w] = @ + 1]
  /\ IF off[w] + 1 = DataChunks
     THEN /\ wpc' = [wpc EXCEPT ![w] = "rename"]
          /\ fd' = [fd EXCEPT ![w] = 0]
     ELSE UNCHANGED <<wpc, fd>>
  /\ UNCHANGED <<kind, scoreVars, searchVars, setupVars, storeVars,
                 pageVars, pickVars,
                 names, nextInode>>

\* await fs.rename(tempPath, filePath): moves the file that has the name
\* tempPath now, or throws ENOENT when there is none
Rename(w) ==
  /\ wpc[w] = "rename"
  /\ IF names.tempPath = 0
     THEN /\ wpc' = [wpc EXCEPT ![w] = "catch"]
          /\ names' = names
     ELSE /\ names' = [filePath |-> names.tempPath, tempPath |-> 0]
          /\ wpc' = [wpc EXCEPT ![w] = "done"]
  /\ UNCHANGED <<kind, scoreVars, searchVars, setupVars, storeVars,
                 pageVars, pickVars,
                 content, nextInode, fd, off>>

\* an awaited file operation of the call throws (no space, no permission,
\* ...) before it has any further effect
Throw(w) ==
  /\ wpc[w] \in {"mkdir", "open", "write", "rename"}
  /\ wpc' = [wpc EXCEPT ![w] = "catch"]
  /\ fd' = [fd EXCEPT ![w] = 0]
  /\ UNCHANGED <<kind, scoreVars, searchVars, setupVars, storeVars,
                 pageVars, pickVars,
                 names, content, nextInode, off>>

\* catch: await fs.unlink(tempPath), errors ignored; then the error is
\* thrown to the caller
Cleanup(w) ==
  /\ wpc[w] = "catch"
  /\ names' = [names EXCEPT !.tempPath = 0]
  /\ wpc' = [wpc EXCEPT ![w] = "failed"]
  /\ UNCHANGED <<kind, scoreVars, searchVars, setupVars, storeVars,
                 pageVars, pickVars,
                 content, nextInode, fd, off>>

WriteNext ==
  \/ \E w \in Writers : Mkdir(w)
  \/ \E w \in Writers : OpenTemp(w)
  \/ \E w \in Writers : WriteChunk(w)
  \/ \E w \in Writers : Rename(w)
  \/ \E w \in Writers : Throw(w)
  \/ \E w \in Writers : Cleanup(w)

WriteSpec == WriteInit /\ [][WriteNext]_vars

\* ------------------------------------- specification of the task store
\* Ids are the numbers 1, 2, ... in the order FileUtils.generateId()
\* returns them (randomUUID: a value never returned before). Of a project,
\* task and subtask the model keeps the id and the ids of its parents; the
\* arrays of StorageData are sets, as no operation depends on their order.
\* The ids a caller gives are any of these, stored or not.
Ids == 1..MaxIds
GivenIds == Ids

\* the parent fields an update can carry
TaskUpdates == [projectId : {Absent} \cup {{p} : p \in GivenIds}]
SubtaskUpdates == [taskId : {Absent} \cup {{t} : t \in GivenIds},
                   projectId : {Absent} \cup {{p} : p \in GivenIds}]

\* data.tasks.find(t => t.id === id), as a set of at most one task
FindTask(d, id) == {t \in d.tasks : t.id = id}
FindSubtask(d, id) == {u \in d.subtasks : u.id = id}
TheOne(set) == CHOOSE x \in set : TRUE

\* Each operation is the StorageData the call saves, and the data it
\* loaded if it saves nothing (it throws, or returns null or false).
createProject(d, id) == [d EXCEPT !.projects = @ \cup {id}]

createTask(d, id, projectId) ==
  IF projectId \notin d.projects THEN d
  ELSE [d EXCEPT !.tasks = @ \cup {[id |-> id, projectId |-> projectId]}]

createSubtask(d, id, taskId) ==
  IF FindTask(d, taskId) = {} THEN d
  ELSE LET task == TheOne(FindTask(d, taskId))
       IN [d EXCEPT !.subtasks =
             @ \cup {[id |-> id, taskId |-> taskId,
                      projectId |-> task.projectId]}]

deleteProject(d, id) ==
  IF id \notin d.projects THEN d
  ELSE [projects |-> d.projects \ {id},
        tasks |-> {t \in d.tasks : t.projectId # id},
        subtasks |-> {u \in d.subtasks : u.projectId # id}]

deleteTask(d, id) ==
  IF FindTask(d, id) = {} THEN d
  ELSE [d EXCEPT !.tasks = {t \in @ : t.id # id},
                 !.subtasks = {u \in @ : u.taskId # id}]

deleteSubtask(d, id) == [d EXCEPT !.subtasks = {u \in @ : u.id # id}]

\* { ...task, ...updates }
updateTask(d, id, updates) ==
  [d EXCEPT !.tasks =
     {IF t.id = id
      THEN [t EXCEPT !.projectId = Coalesce(updates.projectId, @)]
      ELSE t : t \in @}]

\* { ...subtask, ...updates }
updateSubtask(d, id, updates) ==
  [d EXCEPT !.subtasks =
     {IF u.id = id
      THEN [u EXCEPT !.taskId = Coalesce(updates.taskId, @),
                     !.projectId = Coalesce(updates.projectId, @)]
      ELSE u : u \in @}]

\* validateParentAssignment('task', ...).isValid and the three finds
moveTaskToProject(d, taskId, newProjectId) ==
  IF \/ newProjectId \notin d.projects
     \/ FindTask(d, taskId) = {}
     \/ TheOne(FindTask(d, taskId)).projectId \notin d.projects
  THEN d
  ELSE [d EXCEPT !.tasks = {IF t.id = taskId
                            THEN [t EXCEPT !.projectId = newProjectId]
                            ELSE t : t \in @},
                 !.subtasks = {IF u.taskId = taskId
                               THEN [u EXCEPT !.projectId = newProjectId]
                               ELSE u : u \in @}]

moveSubtaskToTask(d, subtaskId, newTaskId) ==
  IF \/ FindTask(d, newTaskId) = {}
     \/ FindSubtask(d, subtaskId) = {}
     \/ FindTask(d, TheOne(FindSubtask(d, subtaskId)).taskId) = {}
  THEN d
  ELSE LET newTask == TheOne(FindTask(d, newTaskId))
       IN [d EXCEPT !.subtasks =
             {IF u.id = subtaskId
              THEN [u EXCEPT !.taskId = newTaskId,
                             !.projectId = newTask.projectId]
              ELSE u : u \in @}]

\* what is left of the updates once the parent fields are removed
NoParent == [projectId |-> Absent]
NoParents == [taskId |-> Absent, projectId |-> Absent]

\* updates.projectId / updates.taskId is truthy: present (ids are not
\* empty strings)
Truthy(opt) == opt # Absent

updateTaskWithParent(d, id, updates) ==
  IF /\ Truthy(updates.projectId)
     /\ FindTask(d, id) # {}
     /\ TheOne(FindTask(d, id)).projectId # TheOne(updates.projectId)
  THEN updateTask(moveTaskToProject(d, id, TheOne(updates.projectId)), id,
                  NoParent)
  ELSE updateTask(d, id, updates)

updateSubtaskWithParent(d, id, updates) ==
  IF /\ Truthy(updates.taskId)
     /\ FindSubtask(d, id) # {}
     /\ TheOne(FindSubtask(d, id)).taskId # TheOne(updates.taskId)
  THEN updateSubtask(moveSubtaskToTask(d, id, TheOne(updates.taskId)), id,
                     NoParents)
  ELSE updateSubtask(d, id, updates)

\* no call of TaskService is in flight, no memory is stored
NoMemories == memoryFiles = {} /\ updated = NoCall

TaskInit ==
  /\ kind = "task"
  /\ NoScore
  /\ NoSearch
  /\ NoPaging
  /\ NoPick
  /\ NoWrite
  /\ uuid = 0
  /\ data = EmptyData
  /\ calls = <<>>
  /\ NoMemories

\* a completed call that creates: the data it saved, with a new id
Creates(saved) ==
  /\ uuid < MaxIds
  /\ uuid' = uuid + 1
  /\ data' = saved

\* a completed call that creates nothing
Saves(saved) == data' = saved /\ UNCHANGED uuid

TaskFrame ==
  UNCHANGED <<kind, scoreVars, searchVars, setupVars, pageVars, pickVars,
              writeVars, calls, memoryFiles, updated>>

CreateProject == Creates(createProject(data, uuid + 1)) /\ TaskFrame

CreateTask ==
  /\ \E projectId \in data.projects :
       Creates(createTask(data, uuid + 1, projectId))
  /\ TaskFrame

CreateSubtask ==
  /\ \E t \in data.tasks : Creates(createSubtask(data, uuid + 1, t.id))
  /\ TaskFrame

UpdateTaskWithParent ==
  /\ \E id \in Ids, updates \in TaskUpdates :
       Saves(updateTaskWithParent(data, id, updates))
  /\ TaskFrame

UpdateSubtaskWithParent ==
  /\ \E id \in Ids, updates \in SubtaskUpdates :
       Saves(updateSubtaskWithParent(data, id, updates))
  /\ TaskFrame

MoveTaskToProject ==
  /\ \E taskId \in Ids, newProjectId \in Ids :
       Saves(moveTaskToProject(data, taskId, newProjectId))
  /\ TaskFrame

MoveSubtaskToTask ==
  /\ \E subtaskId \in Ids, newTaskId \in Ids :
       Saves(moveSubtaskToTask(data, subtaskId, newTaskId))
  /\ TaskFrame

DeleteProject ==
  /\ \E id \in Ids : Saves(deleteProject(data, id))
  /\ TaskFrame

DeleteTask ==
  /\ \E id \in Ids : Saves(deleteTask(data, id))
  /\ TaskFrame

DeleteSubtask ==
  /\ \E id \in Ids : Saves(deleteSubtask(data, id))
  /\ TaskFrame

TaskNext ==
  \/ CreateProject
  \/ CreateTask
  \/ CreateSubtask
  \/ UpdateTaskWithParent
  \/ UpdateSubtaskWithParent
  \/ MoveTaskToProject
  \/ MoveSubtaskToTask
  \/ DeleteProject
  \/ DeleteTask
  \/ DeleteSubtask

TaskSpec == TaskInit /\ [][TaskNext]_vars

\* ------------------------- specification of overlapping TaskService calls
\* Calls of createProject and createTask that are started without awaiting
\* one another, over a store with one project. A call loads the data
\* (await this.loadData()), changes its copy, and saves it
\* (await this.saveData(data)); the save is taken as one step that
\* replaces the file.
Callers == 1..MaxCalls

IdleCall == [pc |-> "idle", data |-> EmptyData, made |-> 0]

OverlapInit ==
  /\ kind = "task"
  /\ NoScore
  /\ NoSearch
  /\ NoPaging
  /\ NoPick
  /\ NoWrite
  /\ uuid = 1
  /\ data = createProject(EmptyData, 1)
  /\ calls = [c \in Callers |-> IdleCall]
  /\ NoMemories

OverlapFrame ==
  UNCHANGED <<kind, scoreVars, searchVars, setupVars, pageVars, pickVars,
              writeVars, memoryFiles, updated>>

\* const data = await this.loadData()
LoadData(c) ==
  /\ calls[c].pc = "idle"
  /\ calls' = [calls EXCEPT ![c] = [@ EXCEPT !.pc = "loaded", !.data = data]]
  /\ UNCHANGED <<uuid, data>>
  /\ OverlapFrame

\* the change of the loaded copy: data.projects.push(project) or
\* data.tasks.push(task), with an id of FileUtils.generateId()
Change(c) ==
  /\ calls[c].pc = "loaded"
  /\ uuid < MaxIds
  /\ \E changed \in {createProject(calls[c].data, uuid + 1)}
                   \cup {createTask(calls[c].data, uuid + 1, projectId) :
                           projectId \in calls[c].data.projects} :
       calls' = [calls EXCEPT ![c] = [pc |-> "saving", data |-> changed,
                                      made |-> uuid + 1]]
  /\ uuid' = uuid + 1
  /\ UNCHANGED data
  /\ OverlapFrame

\* await this.saveData(data) resolves
SaveData(c) ==
  /\ calls[c].pc = "saving"
  /\ data' = calls[c].data
  /\ calls' = [calls EXCEPT ![c] = [@ EXCEPT !.pc = "done"]]
  /\ UNCHANGED uuid
  /\ OverlapFrame

OverlapNext == \E c \in Callers : LoadData(c) \/ Change(c) \/ SaveData(c)

OverlapSpec == OverlapInit /\ [][OverlapNext]_vars

\* ------------------------------------ specification of the memory files
\* String.prototype.trim
RECURSIVE TrimStart(_)
TrimStart(s) ==
  IF s # <<>> /\ IsSpace(Head(s)) THEN TrimStart(Tail(s)) ELSE s

RECURSIVE TrimEnd(_)
TrimEnd(s) ==
  IF s # <<>> /\ IsSpace(s[Len(s)])
  THEN TrimEnd(SubSeq(s, 1, Len(s) - 1))
  ELSE s

trim(s) == TrimEnd(TrimStart(s))

\* .replace(/_{2,}/g, '_')
RECURSIVE Squeeze(_)
Squeeze(s) ==
  IF Len(s) < 2 THEN s
  ELSE IF s[1] = "_" /\ s[2] = "_" THEN Squeeze(Tail(s))
  ELSE <<s[1]>> \o Squeeze(Tail(s))

\* .replace(/^_|_$/g, '')
Strip(s) ==
  LET a == IF s # <<>> /\ Head(s) = "_" THEN Tail(s) ELSE s
  IN IF a # <<>> /\ a[Len(a)] = "_" THEN SubSeq(a, 1, Len(a) - 1) ELSE a

\* MemoryService.sanitizeTitle; no character of Chars is invalid in a
\* file name
sanitizeTitle(title) ==
  LET spaced == [i \in 1..Len(title) |->
                   IF IsSpace(title[i]) THEN "_" ELSE title[i]]
  IN toLowerCase(Strip(Squeeze(spaced)))

\* the ids, titles and categories callers give
MemoryIds == 1..MaxMemoryIds
MemoryTitles == { <<"a">>, <<"A", " ">> }
MemoryCategories == { DefaultCategory, <<"b">> }
MemoryUpdates == [title : {Absent} \cup {{t} : t \in MemoryTitles},
                  category : {Absent} \cup {{c} : c \in MemoryCategories}]

\* resolveFileNameConflict: the first of no suffix (0), _1, _2, ... for
\* which no file exists
FreeSuffix(files, dir, base) ==
  CHOOSE n \in 0..Cardinality(files) :
    /\ ~\E f \in files : f.dir = dir /\ f.base = base /\ f.n = n
    /\ \A m \in 0..(n - 1) :
         \E f \in files : f.dir = dir /\ f.base = base /\ f.n = m

\* the Memory that getMemory and updateMemory make of a file's JSON
FromJson(json) ==
  [id |-> json.id, title |-> json.title,
   category |-> IF json.category = DefaultCategory THEN NoCategory
                ELSE json.category]

\* the MemoryJsonFile of a memory
ToJson(memory) ==
  [id |-> memory.id, title |-> memory.title, category |-> CategoryDir(memory)]

\* MemoryService.createMemory: the files after the call and the memory it
\* returns; given is its input, id the value of FileUtils.generateId()
createMemory(files, id, given) ==
  LET memory == [id |-> id, title |-> trim(given.title),
                 category |-> given.category]
      dir == CategoryDir(memory)
      base == sanitizeTitle(memory.title)
  IN [files |-> files \cup {[dir |-> dir, base |-> base,
                             n |-> FreeSuffix(files, dir, base),
                             json |-> ToJson(memory)]},
      memory |-> memory]

\* MemoryService.findMemoryFileById, as a set of at most one file
findMemoryFileById(files, id) == {f \in files : f.json.id = id}

\* MemoryService.updateMemory: the files after the call, what it returns
\* (<<>> for null) and the ids it generated; newId is the value of
\* FileUtils.generateId() if the call reaches it
updateMemory(files, id, updates, newId) ==
  IF findMemoryFileById(files, id) = {}
  THEN [files |-> files, returned |-> <<>>, created |-> {}]
  ELSE
    LET file == TheOne(findMemoryFileById(files, id))
        existingMemory == FromJson(file.json)
        updatedMemory ==
          [id |-> existingMemory.id,
           title |-> Coalesce(updates.title, existingMemory.title),
           category |-> Coalesce(updates.category, existingMemory.category)]
    IN IF /\ updates.category # Absent
          /\ TheOne(updates.category) # existingMemory.category
       THEN [files |-> createMemory(files \ {file}, newId,
                                    updatedMemory).files,
             returned |-> <<updatedMemory>>,
             created |-> {newId}]
       ELSE [files |-> (files \ {file})
                         \cup {[file EXCEPT !.json = ToJson(updatedMemory)]},
             returned |-> <<updatedMemory>>,
             created |-> {}]

MemoryInit ==
  /\ kind = "memory"
  /\ NoScore
  /\ NoSearch
  /\ NoPaging
  /\ NoPick
  /\ NoWrite
  /\ uuid = 0
  /\ data = EmptyData
  /\ calls = <<>>
  /\ NoMemories

MemoryFrame ==
  UNCHANGED <<kind, scoreVars, searchVars, setupVars, pageVars, pickVars,
              writeVars, data, calls>>

\* createMemory(input)
CreateMemory ==
  /\ uuid < MaxMemoryIds
  /\ \E title \in MemoryTitles :
     \E category \in {NoCategory} \cup MemoryCategories :
       memoryFiles' = createMemory(memoryFiles, uuid + 1,
                                   [title |-> title,
                                    category |-> category]).files
  /\ uuid' = uuid + 1
  /\ updated' = NoCall
  /\ MemoryFrame

\* updateMemory(id, updates)
UpdateMemory ==
  /\ \E id \in MemoryIds, updates \in MemoryUpdates :
       LET call == updateMemory(memoryFiles, id, updates, uuid + 1)
       IN /\ call.created # {} => uuid < MaxMemoryIds
          /\ memoryFiles' = call.files
          /\ uuid' = uuid + Cardinality(call.created)
          /\ updated' = [id |-> id, returned |-> call.returned,
                         created |-> call.created]
  /\ MemoryFrame

\* deleteMemory(id)
DeleteMemory ==
  /\ \E id \in MemoryIds :
       memoryFiles' = memoryFiles \ findMemoryFileById(memoryFiles, id)
  /\ updated' = NoCall
  /\ UNCHANGED uuid
  /\ MemoryFrame

MemoryNext == CreateMemory \/ UpdateMemory \/ DeleteMemory

MemorySpec == MemoryInit /\ [][MemoryNext]_vars

\* ================================================================ claims
\* the lower-cased texts of the scorer call
LowerPrimary == toLowerCase(PrimaryText(kind, record))
LowerSecondary == toLowerCase(SecondaryText(kind, record))
LowerQuery == toLowerCase(rawQuery)

\* the record has a category (a non-empty string) that contains the query
CategoryMatches ==
  /\ CategoryOf(kind, record) # NoCategory
  /\ CategoryOf(kind, record) # <<>>
  /\ includes(toLowerCase(CategoryOf(kind, record)), LowerQuery)

\* C1: the score a scorer returns is at least 0 and at most 1.0, for every
\* record, query and performance configuration.
C1_ScoreBounded ==
  phase = "scored" => (steps.score >= 0 /\ steps.score <= 10000)

\* a memory scored just below 1.0: title ends with the query, content and
\* category contain it
C1_Witness ==
  /\ phase = "scored"
  /\ kind = "memory"
  /\ steps.primary = 6000
  /\ steps.contentAdded > 0
  /\ steps.categoryAdded > 0
  /\ steps.score > 9000

\* C2: when the lower-cased primary text equals the lower-cased query the
\* score is exactly 1.0, whatever the rest of the record and the
\* configuration are.
C2_ExactMatchIsOne ==
  (phase = "scored" /\ LowerPrimary = LowerQuery) => steps.score = 10000

\* an exact match up to letter case, with early termination enabled
C2_Witness ==
  /\ phase = "scored"
  /\ LowerPrimary = LowerQuery
  /\ PrimaryText(kind, record) # rawQuery
  /\ perf.enableEarlyTermination
  /\ steps.score = 10000

\* C3: the primary-text component is the first applicable of 1.0 (equal),
\* 0.8 (starts with the query), 0.6 (ends with it), 0.4 (contains it) and 0;
\* a primary text that starts and ends with the query without being equal
\* to it contributes 0.8.
C3_PrimaryComponent ==
  phase = "scored" =>
    steps.primary =
      IF LowerPrimary = LowerQuery THEN 10000
      ELSE IF startsWith(LowerPrimary, LowerQuery) THEN 8000
      ELSE IF endsWith(LowerPrimary, LowerQuery) THEN 6000
      ELSE IF includes(LowerPrimary, LowerQuery) THEN 4000
      ELSE 0

\* a primary text that starts and ends with a non-empty query and is longer
C3_Witness ==
  /\ phase = "scored"
  /\ LowerQuery # <<>>
  /\ LowerPrimary # LowerQuery
  /\ startsWith(LowerPrimary, LowerQuery)
  /\ endsWith(LowerPrimary, LowerQuery)
  /\ steps.primary = 8000

\* C4: with early termination enabled and a primary-text component below
\* lowScoreThreshold the scorer returns that component alone: nothing is
\* added for the secondary text or the category.
C4_EarlyTermination ==
  (/\ phase = "scored"
   /\ perf.enableEarlyTermination
   /\ steps.primary < perf.lowScoreThreshold)
  => (/\ steps.score = steps.primary
      /\ steps.contentAdded = 0
      /\ steps.categoryAdded = 0)

\* Scenario B: threshold 0.1, the primary text does not contain the query,
\* the secondary text does, and the score is 0
C4_Witness ==
  /\ phase = "scored"
  /\ perf.enableEarlyTermination
  /\ perf.lowScoreThreshold = 1000
  /\ LowerQuery # <<>>
  /\ ~includes(LowerPrimary, LowerQuery)
  /\ includes(LowerSecondary, LowerQuery)
  /\ steps.score = 0

\* the query is a list of words: no white space at either end
QueryIsWords == \A i \in 1..Len(split(LowerQuery)) : split(LowerQuery)[i] # <<>>

\* C5: whenever the score after the primary-text step is below 0.8 and the
\* scorer did not return early, it adds 0.3 * (number of query tokens that
\* occur in the lower-cased secondary text / number of query tokens); a
\* query of several words of which only some occur in the secondary text
\* earns that fraction of 0.3.
C5_ProportionalContent ==
  (phase = "scored" /\ QueryIsWords /\ ~steps.early /\ steps.primary < 8000)
  => steps.contentAdded =
       (CountWordMatches(LowerSecondary, split(LowerQuery)) * 3000)
         \div Len(split(LowerQuery))

\* C6: the scorer adds 0.1 for the category when it did not return early,
\* the running score is below 0.9 and the record has a category whose
\* lower-cased form contains the query, and adds nothing for the category
\* otherwise; a primary text that starts with the query (0.8) and such a
\* category give 0.9.
C6_CategoryBonus ==
  phase = "scored" =>
    /\ steps.categoryAdded =
         IF ~steps.early /\ steps.beforeCategory < 9000 /\ CategoryMatches
         THEN 1000 ELSE 0
    /\ (steps.primary = 8000 /\ CategoryMatches) => steps.score = 9000

\* Scenario A: the title starts with the query, the category contains it
C6_Witness ==
  /\ phase = "scored"
  /\ kind = "memory"
  /\ LowerQuery # <<>>
  /\ steps.primary = 8000
  /\ CategoryMatches
  /\ steps.categoryAdded = 1000
  /\ steps.score = 9000

\* the threshold and the cap the call has to use
EffectiveThreshold ==
  IF input.threshold = {} THEN config.search.threshold
  ELSE CHOOSE t \in input.threshold : TRUE

EffectiveMaxResults ==
  IF input.limit = {} THEN config.search.maxResults
  ELSE CHOOSE n \in input.limit : TRUE

\* C7: every result a search returns carries the score of its record, and
\* that score is at least the effective threshold (input.threshold, or
\* config.search.threshold when the input gives none).
C7_AboveThreshold ==
  pc = "returned" =>
    \A i \in 1..Len(output) :
      /\ output[i].score = ScoreOf(output[i].id)
      /\ output[i].score >= EffectiveThreshold

\* a search with a threshold of its own that returned some records and
\* left out a scanned record below that threshold
C7_Witness ==
  /\ pc = "returned"
  /\ input.query # <<>>
  /\ input.threshold # {}
  /\ Len(output) > 0
  /\ \E i \in 1..Len(all) :
       /\ ScoreOf(all[i]) < EffectiveThreshold
       /\ ScoreOf(all[i]) >= config.search.threshold
       /\ \A j \in 1..Len(output) : output[j].id # all[i]

\* C8: the returned list is ordered by score non-increasing, and results of
\* equal score keep the order their records have in the store.
C8_SortedStable ==
  pc = "returned" =>
    \A i, j \in 1..Len(output) :
      i < j =>
        /\ output[i].score >= output[j].score
        /\ output[i].score = output[j].score => output[i].id < output[j].id

\* a returned list with a tie, in which the sort moved a later record ahead
\* of an earlier one
C8_Witness ==
  /\ pc = "returned"
  /\ input.query # <<>>
  /\ \E i, j \in 1..Len(output) :
       i < j /\ output[i].score = output[j].score
  /\ \E i, j \in 1..Len(output) :
       i < j /\ output[i].id > output[j].id

\* C9: a search returns at most the effective maxResults results
\* (input.limit, or config.search.maxResults when the input gives none).
C9_AtMostMaxResults ==
  pc = "returned" => Len(output) <= EffectiveMaxResults

\* a search with a limit of its own that returned as many results as the
\* limit allows although more records pass the filters
C9_Witness ==
  /\ pc = "returned"
  /\ input.query # <<>>
  /\ input.limit # {}
  /\ Len(output) = EffectiveMaxResults
  /\ Cardinality({i \in 1..Len(all) :
                    /\ ScoreOf(all[i]) >= EffectiveThreshold
                    /\ ~(/\ config.performance.enableEarlyTermination
                         /\ ScoreOf(all[i])
                              < config.performance.lowScoreThreshold)})
       > EffectiveMaxResults

\* C10: a search whose signal is aborted before the call or while the call
\* is in progress ends with the cancellation error and delivers no result
\* list; the call never gets past the loading of the records.
C10_CancelledNoResults ==
  aborted => (pc \in {"idle", "loading", "cancelled"} /\ output = <<>>)

\* a cancelled search over a store with records that pass the filters
C10_Witness ==
  /\ pc = "cancelled"
  /\ input.query # <<>>
  /\ aborted
  /\ output = <<>>
  /\ \E i \in 1..Len(all) : ScoreOf(all[i]) >= EffectiveThreshold

\* the positions in the loaded list whose record passes the filters: its
\* score is at least the effective threshold and, with early termination
\* enabled, at least lowScoreThreshold
Qualifying ==
  { p \in 1..Len(all) :
      LET score == ScoreOf(all[p])
      IN /\ score >= EffectiveThreshold
         /\ ~(/\ config.performance.enableEarlyTermination
              /\ score < config.performance.lowScoreThreshold) }

\* the store indices of the records a call returned
ReturnedIds == { output[i].id : i \in 1..Len(output) }

\* C12: when no more records pass the filters than the effective maxResults
\* allows, a search that is not cancelled returns exactly those records,
\* each once (an empty list when none passes), and a search ends with an
\* error only when it was cancelled.
C12_ExactlyQualifying ==
  /\ pc = "cancelled" => aborted
  /\ pc = "returned" =>
       LET qualifying == Qualifying
       IN Cardinality(qualifying) <= EffectiveMaxResults =>
            /\ ReturnedIds = { all[p] : p \in qualifying }
            /\ Len(output) = Cardinality(qualifying)

\* a search that returned some records of the store and not others, one of
\* the returned records scoring exactly the threshold
C12_Witness ==
  /\ pc = "returned"
  /\ input.query # <<>>
  /\ Cardinality(Qualifying) <= EffectiveMaxResults
  /\ Qualifying # {}
  /\ Cardinality(Qualifying) < Len(all)
  /\ \E i \in 1..Len(output) : output[i].score = EffectiveThreshold

\* C17 as stated: no step of a search changes the stored records, the
\* settings, the directory structure or the state of the service.
C17_NoSharedStateChanges ==
  [][/\ store' = store
     /\ config' = config
     /\ structure' = structure
     /\ isInitialized' = isInitialized]_vars

\* C17, amended: a search, whether it completes, returns nothing or is
\* cancelled, leaves the stored records, their order, its input and the
\* settings unchanged; the only shared state it touches is touched while
\* the records are loaded: the directory structure (with a tasks.json
\* without tasks) is created when it is missing and the memory service
\* marks itself initialised.
C17_RecordsUnchanged ==
  [][/\ store' = store
     /\ config' = config
     /\ input' = input
     /\ structure => structure'
     /\ isInitialized => isInitialized'
     /\ (structure' # structure \/ isInitialized' # isInitialized) =>
          pc = "loading"]_vars

\* a completed search of the tasks of a workspace that had them, whose sort
\* put a later record ahead of an earlier one
C17_Witness ==
  /\ pc = "returned"
  /\ kind = "task"
  /\ input.query # <<>>
  /\ Len(store) >= 2
  /\ Len(output) >= 2
  /\ output[1].id > output[2].id

\* the first n of the positions in ps
FirstOf(ps, n) == { p \in ps : Cardinality({ q \in ps : q <= p }) <= n }

\* the positions of the first effective-maxResults records that pass the
\* filters, in store order
FirstQualifying == FirstOf(Qualifying, EffectiveMaxResults)

\* C20: the scan ends with the record that brings the accepted results to
\* the effective maxResults, so the records behind it are not scored, and
\* the returned records are exactly the first maxResults records, in store
\* order, that pass the filters.
C20_FirstMaxResults ==
  pc = "returned" =>
    LET first == FirstQualifying
    IN /\ ReturnedIds = { all[p] : p \in first }
       /\ Cardinality(first) >= EffectiveMaxResults =>
            /\ idx - 1 \in first
            /\ \A p \in first : p <= idx - 1

\* a search that stopped at the cap and left out a later record that scores
\* higher than a record it returned
C20_Witness ==
  /\ pc = "returned"
  /\ input.query # <<>>
  /\ idx <= Len(all)
  /\ \E p \in Qualifying \ FirstQualifying :
       \E i \in 1..Len(output) : ScoreOf(all[p]) > output[i].score

\* the number of pages that n items fill at size items a page
PagesFor(n, size) == IF n = 0 THEN 0 ELSE ((n - 1) \div size) + 1

\* the requested page held within 1..last (1 when there is no page)
Clamped(p, last) == IF p > last THEN (IF last < 1 THEN 1 ELSE last)
                    ELSE IF p < 1 THEN 1 ELSE p

\* C13: paginateResults reports totalItems = N, totalPages = ceil(N /
\* pageSize) (0 when N = 0) and currentPage = the requested page clamped
\* into 1..totalPages (1 when N = 0); of 25 items, page 2 at 10 a page is
\* the items 11..20 with currentPage 2, totalPages 3 and both flags true.
C13_PaginationInfo ==
  pstate = "paged" =>
    LET n == Len(items)
        info == paged.pagination
    IN /\ info.totalItems = n
       /\ info.totalPages = PagesFor(n, pageSize)
       /\ n = 0 => info.totalPages = 0 /\ info.currentPage = 1
       /\ info.currentPage = Clamped(page, PagesFor(n, pageSize))
       /\ (n = 25 /\ page = 2 /\ pageSize = 10) =>
            /\ paged.items = [i \in 1..10 |-> 10 + i]
            /\ info.currentPage = 2
            /\ info.totalPages = 3
            /\ info.hasNextPage
            /\ info.hasPreviousPage

\* Scenario D: page 2 of 25 items at 10 a page
C13_Witness ==
  /\ pstate = "paged"
  /\ Len(items) = 25
  /\ page = 2
  /\ pageSize = 10
  /\ Len(paged.items) = 10
  /\ paged.pagination.totalPages = 3

\* C14: the items of the pages 1..ceil(N / pageSize), one after the other,
\* are the list that was paginated: no item is lost, repeated or moved.
C14_PagesPartition ==
  pstate = "walked" => collected = items

\* 25 items read in three pages of 10, the last one not full
C14_Witness ==
  /\ pstate = "walked"
  /\ Len(items) = 25
  /\ pageSize = 10
  /\ walk = 4
  /\ Len(collected) = 25

\* C15: for a requested page outside 1..totalPages (beyond the last page,
\* zero or negative) paginateResults returns no items, and currentPage is
\* the clamped page.
C15_OutOfRangeEmpty ==
  (/\ pstate = "paged"
   /\ (page < 1 \/ page > PagesFor(Len(items), pageSize))) =>
    /\ paged.items = <<>>
    /\ paged.pagination.currentPage
         = Clamped(page, PagesFor(Len(items), pageSize))

\* the record with each of its texts in lower case
LowerRecord(k, r) ==
  IF k = "memory"
  THEN [title |-> toLowerCase(r.title),
        content |-> toLowerCase(r.content),
        category |-> IF r.category = NoCategory THEN NoCategory
                     ELSE toLowerCase(r.category)]
  ELSE [name |-> toLowerCase(r.name), details |-> toLowerCase(r.details)]

\* the score the search gives record r for the query q of the caller
SearchScore(k, r, q, p) ==
  IF k = "memory" THEN calculateRelevanceScore(r, toLowerCase(q), p)
  ELSE calculateTaskRelevanceScore(r, toLowerCase(q), p)

C11_NoStaleResults ==
  [][(shown' # shown /\ shown' # 0) => shown' = started']_vars

\* the content of tasks.json as a reader finds it
TasksJson == content[names.filePath]

\* C19: whatever the interleaving of the calls of writeTasksFile, and
\* whichever of them fail part-way, tasks.json holds at every moment the
\* complete data of one single write, and it never holds data of a call
\* that failed.
C19_AtomicWrites ==
  /\ \E w \in Writers \cup {PreviousWrite} : TasksJson = Data(w)
  /\ \A w \in Writers :
       wpc[w] = "failed" => \A i \in 1..Len(TasksJson) : TasksJson[i] # w

\* C21: with early termination enabled the search returns no record that
\* scores below lowScoreThreshold, whatever the query threshold is: such a
\* record is skipped by the loop, which goes on to the next record.
C21_LowScoreSkipped ==
  (pc = "returned" /\ config.performance.enableEarlyTermination) =>
    \A i \in 1..Len(output) :
      output[i].score >= config.performance.lowScoreThreshold

\* a search with lowScoreThreshold above the threshold that completed and
\* left out a record that scores at least the threshold, while it
\* returned a record that comes later in the store
C21_Witness ==
  /\ pc = "returned"
  /\ input.query # <<>>
  /\ config.performance.enableEarlyTermination
  /\ config.performance.lowScoreThreshold > EffectiveThreshold
  /\ \E p \in 1..Len(all) :
       /\ ScoreOf(all[p]) >= EffectiveThreshold
       /\ ScoreOf(all[p]) < config.performance.lowScoreThreshold
       /\ all[p] \notin ReturnedIds
       /\ \E i \in 1..Len(output) : output[i].id > all[p]

\* C22: a search called with an empty query does not return the records
\* of the store as matches: over a store that holds records, its result is
\* not the whole store.
C22_EmptyQueryNoMatch ==
  (pc = "returned" /\ input.query = <<>> /\ Len(store) > 0) =>
    ReturnedIds # 1..Len(store)

\* the steps of the two calls of the record's own scorer
BothSettings == {steps, twin.disabled}

\* C23: the cap min(score, 1.0) of the scorers never changes the result:
\* the primary, secondary and category amounts that were added sum to at
\* most 1.0, and that sum is the score.
C23_CapNeverBinds ==
  phase = "compared" =>
    \A s \in BothSettings :
      LET sum == FAdd(FAdd(s.primary, s.contentAdded), s.categoryAdded)
      IN /\ sum <= 10000
         /\ s.score = sum

\* the largest sum there is: a suffix match (0.6), the content (0.3) and
\* the category (0.1) give 0.9999999999999999
C23_Witness ==
  /\ phase = "compared"
  /\ kind = "memory"
  /\ steps.primary = 6000
  /\ steps.contentAdded = 3000
  /\ steps.categoryAdded = 1000
  /\ steps.score = 9999

C25_EarlyTerminationLowers ==
  phase = "compared" =>
    /\ steps.score <= twin.disabled.score
    /\ steps.primary >= perf.lowScoreThreshold
         => steps.score = twin.disabled.score

\* a title that only contains the query (0.4, below lowScoreThreshold 0.5)
\* and a content that contains it: 0.4 with early termination, 0.7 without
C25_Witness ==
  /\ phase = "compared"
  /\ LowerQuery # <<>>
  /\ steps.primary = 4000
  /\ steps.score = 4000
  /\ twin.disabled.score = 7000

\* C26: on a task, calculateTaskRelevanceScore gives the score that
\* calculateRelevanceScore gives the memory with the task's name as title,
\* its details as content and no category, for every name, details, query
\* and performance configuration; the task scorer adds no category bonus.
C26_TaskScorerIsMemoryScorer ==
  (phase = "compared" /\ CategoryOf(kind, record) = NoCategory) =>
    /\ steps.score = twin.other
    /\ twin.disabled.score = twin.otherDisabled
    /\ kind = "task" =>
         steps.categoryAdded = 0 /\ twin.disabled.categoryAdded = 0

\* a task that scores 0.6 for its name and 0.3 for its details
C26_Witness ==
  /\ phase = "compared"
  /\ kind = "task"
  /\ LowerQuery # <<>>
  /\ steps.primary = 6000
  /\ steps.contentAdded = 3000
  /\ twin.other = 8999

\* C27: the navigation flags that paginateResults returns agree with the
\* currentPage it reports, for every requested page: hasPreviousPage is
\* true exactly when the reported currentPage is above 1, hasNextPage
\* exactly when it is below totalPages.
C27_FlagsMatchCurrentPage ==
  pstate = "paged" =>
    /\ paged.pagination.hasPreviousPage
         <=> paged.pagination.currentPage > 1
    /\ paged.pagination.hasNextPage
         <=> paged.pagination.currentPage < paged.pagination.totalPages

\* C29: after any sequence of completed TaskService mutations from the
\* empty store, every task's projectId names a stored project, every
\* subtask's taskId names a stored task, and every subtask's projectId is
\* the projectId of its parent task.
C29_ReferentialIntegrity ==
  /\ \A t \in data.tasks : t.projectId \in data.projects
  /\ \A u \in data.subtasks :
       \E t \in data.tasks : t.id = u.taskId /\ t.projectId = u.projectId

\* the ids of the stored projects and tasks
StoredIds == data.projects \cup {t.id : t \in data.tasks}

\* C30: no update is lost when TaskService mutations overlap: when two
\* calls that were started without awaiting one another have both
\* completed, the stored data holds what each of them created.
C30_NoLostUpdate ==
  \A c1 \in DOMAIN calls, c2 \in DOMAIN calls :
    (c1 # c2 /\ calls[c1].pc = "done" /\ calls[c2].pc = "done") =>
      {calls[c1].made, calls[c2].made} \subseteq StoredIds

\* C28: updateMemory never changes a memory's id: when updateMemory(id,
\* updates) has returned a memory, that memory has the id, a stored memory
\* is found under the id (getMemory(id) is not null), and the call has
\* created no memory with another id.
C28_IdPreserved ==
  updated.returned # <<>> =>
    /\ updated.returned[1].id = updated.id
    /\ findMemoryFileById(memoryFiles, updated.id) # {}
    /\ updated.created = {}

====
